---- MODULE Spec2Model ----
(***************************************************************************)
(* The feed-resolution pipeline of podcast_rss: find_feed (orchestrator),  *)
(* the Apple, Spotify and autodiscovery resolvers and validate_feed.       *)
(*                                                                         *)
(* A Python string is a sequence of atoms.  An atom is a TLA+ string that  *)
(* stands for the literal text it spells; `x in y` of Python is            *)
(* IsSubstring on atom sequences, s.lower() and s.strip() work atom by     *)
(* atom.  Python's None is None below.                                     *)
(*                                                                         *)
(* A behaviour is one call of find_feed.  Each outbound request is one     *)
(* step: the remote's answer is chosen at the step, the code up to the     *)
(* next request (or the return) runs within it, and the request is         *)
(* appended to calls with what the code made of the answer.                *)
(***************************************************************************)
EXTENDS Integers, Sequences, FiniteSets, TLC

VARIABLES
  pc,        \* where the call stands: "idle", the function about to issue its request, "done"
  input,     \* input_str of the current find_feed call
  s,         \* the trimmed input (orchestrator.py:10)
  source,    \* the resolver the orchestrator dispatched to (None: none yet)
  apple_id,  \* extract_id's result for an Apple URL
  title,     \* the term search_feed_by_title is (to be) called with
  embed,     \* the embed endpoint's response (NoData: none)
  data,      \* the lookup, search or page response the running loop works on (NoData: none)
  cands,     \* the candidates the running loop has still to pass to validate_feed
  calls,     \* the outbound requests of this call, in the order issued
  result,    \* the Result find_feed returned (None: none yet)
  raised,    \* TRUE when an exception escaped find_feed
  probe,     \* the arguments a function is applied to on its own (NoData: none)
  ret,       \* what that function returned (NoData: nothing yet)
  world,     \* what the remote answered so far, where its answers are fixed
  history    \* input and outcome of the find_feed calls that returned earlier

vars ==
  <<pc, input, s, source, apple_id, title, embed, data, cands, calls, result, raised,
    probe, ret, world, history>>

\* Python's None, where a string (a sequence of atoms) or None may stand
None == <<"None">>

(***************************************************************************)
(* Bounds of the model                                                     *)
(***************************************************************************)
MaxInputLen == 4   \* atoms in an input string (SpecClassify)
MaxResults == 2    \* entries in a directory response's results list
MaxElems == 2      \* <link> and <a> elements in a fetched page
MaxBodyAtoms == 2  \* atoms after the filler of a response body (SpecValidate)
MaxCalls == 3      \* find_feed calls made one after another (SpecRepeat)
MaxTitleLen == 3   \* atoms in a title (SpecScore)

SeqUpTo(S, n) == UNION {[1..k -> S] : k \in 0..n}

(***************************************************************************)
(* Strings                                                                 *)
(***************************************************************************)
\* The pure pieces an atom spells: word pieces (only \w characters) and
\* non-word pieces.  Atoms not listed are a single piece.
Pieces(a) ==
  CASE a = "https://" -> <<"https", ":", "/", "/">>
    [] a = "podcasts.apple.com" -> <<"podcasts", ".", "apple", ".", "com">>
    [] a = "open.spotify.com" -> <<"open", ".", "spotify", ".", "com">>
    [] a = "example.com" -> <<"example", ".", "com">>
    [] a = "other.example" -> <<"other", ".", "example">>
    [] a = "feeds.example" -> <<"feeds", ".", "example">>
    [] a = ".xml" -> <<".", "xml">>
    [] OTHER -> <<a>>

RECURSIVE Flatten(_)
Flatten(str) == IF str = <<>> THEN <<>> ELSE Pieces(Head(str)) \o Flatten(Tail(str))

Whitespace == {" "}
NonWord == {" ", "-", "!", ".", ":", "/", "?", "@", "[", "]", "#"}

\* str.lower(), one atom
LowerAtom(a) ==
  CASE a = "A" -> "a"
    [] a = "B" -> "b"
    [] a = "RSS" -> "rss"
    [] a = "Atom" -> "atom"
    [] a = "Feed" -> "feed"
    [] a = "Alternate" -> "alternate"
    [] a = "<RSS" -> "<rss"
    [] a = "<Feed" -> "<feed"
    [] OTHER -> a

lower(str) == [i \in 1..Len(str) |-> LowerAtom(str[i])]

RECURSIVE lstrip(_)
lstrip(str) ==
  IF str # <<>> /\ Head(str) \in Whitespace THEN lstrip(Tail(str)) ELSE str

RECURSIVE rstrip(_)
rstrip(str) ==
  IF str # <<>> /\ str[Len(str)] \in Whitespace
  THEN rstrip(SubSeq(str, 1, Len(str) - 1)) ELSE str

\* the trim left out
strip_omitted(str) == str

\* str.strip()
strip(str) == rstrip(lstrip(str))

\* Python's `needle in hay` on strings
IsSubstring(needle, hay) ==
  \E i \in 0..(Len(hay) - Len(needle)) : SubSeq(hay, i + 1, i + Len(needle)) = needle

\* Python truthiness of an Optional[str]
Truthy(x) == x # None /\ x # <<>>

RECURSIVE DropNonWord(_)
DropNonWord(str) ==
  IF str # <<>> /\ Head(str) \in NonWord THEN DropNonWord(Tail(str)) ELSE str

\* re.sub(r"\W+", " ", str)
RECURSIVE SubNonWord(_)
SubNonWord(str) ==
  IF str = <<>> THEN <<>>
  ELSE IF Head(str) \in NonWord THEN <<" ">> \o SubNonWord(DropNonWord(str))
  ELSE <<Head(str)>> \o SubNonWord(Tail(str))

\* apple.py _norm: re.sub(r"\W+", " ", (s or "").strip().lower())
norm(str) ==
  SubNonWord(lower(strip(IF str = None THEN <<>> ELSE Flatten(str))))

\* the substring test under an else: an equal pair gets 5 only
score_equal_else_substring(a, b) ==
  IF a = <<>> \/ b = <<>> THEN 0
  ELSE IF a = b THEN 5
  ELSE IF IsSubstring(a, b) \/ IsSubstring(b, a) THEN 2 ELSE 0

\* apple.py _score
score(a, b) ==
  IF a = <<>> \/ b = <<>> THEN 0
  ELSE (IF a = b THEN 5 ELSE 0)
       + (IF IsSubstring(a, b) \/ IsSubstring(b, a) THEN 2 ELSE 0)

(***************************************************************************)
(* URLs (urllib.parse) and the input classification of the orchestrator    *)
(***************************************************************************)
\* re.match(r"^https?://", s, re.I): the atom "https://" stands for the
\* prefix in either scheme and any case.
is_url(str) == str # <<>> /\ Head(str) = "https://"

RECURSIVE TakeUntil(_, _)
TakeUntil(str, stops) ==
  IF str = <<>> \/ Head(str) \in stops THEN <<>>
  ELSE <<Head(str)>> \o TakeUntil(Tail(str), stops)

\* urlsplit: the netloc runs from after the "//" to the first of / ? #
netloc(url) == TakeUntil(Tail(url), {"/", "?", "#"})

InStr(a, str) == \E i \in 1..Len(str) : str[i] = a

\* urlsplit raises ValueError("Invalid IPv6 URL") on an unbalanced bracket
\* in the netloc.
urlparse_raises(url) ==
  LET n == netloc(url) IN
  \/ InStr("[", n) /\ ~InStr("]", n)
  \/ InStr("]", n) /\ ~InStr("[", n)

\* orchestrator.py:16  host = urllib.parse.urlparse(s).netloc.lower()
host_of(url) == lower(netloc(url))

is_apple_host(host) == IsSubstring(<<"podcasts.apple.com">>, host)
is_spotify_host(host) == IsSubstring(<<"open.spotify.com">>, host)

\* The atoms that spell "id" followed by digits, and the digits.
IdAtoms == {"id123", "id9"}
Digits(a) == IF a = "id123" THEN <<"123">> ELSE <<"9">>

\* apple.py extract_id: APPLE_ID_RE.search(url), the leftmost "/id<digits>"
\* anywhere in the string.
extract_id(url) ==
  LET f == Flatten(url)
      hits == {i \in 1..(Len(f) - 1) : f[i] = "/" /\ f[i + 1] \in IdAtoms}
  IN IF hits = {} THEN None
     ELSE Digits(f[(CHOOSE i \in hits : \A j \in hits : i <= j) + 1])

\* urllib.parse.urljoin(base, href) for an empty, an absolute and a
\* root-relative href; "raise" when urlsplit rejects the href.
Raise == <<"raise">>
urljoin(base, href) ==
  IF href = <<>> THEN base
  ELSE IF is_url(href) THEN (IF urlparse_raises(href) THEN Raise ELSE href)
  ELSE <<Head(base)>> \o netloc(base) \o href

(***************************************************************************)
(* validators.py                                                           *)
(***************************************************************************)
\* b[:20480]
SNIFF == 20480

\* A body is pad filler bytes (bytes that are part of no marker) followed
\* by text, a sequence of atoms; ByteLen is the number of bytes an atom
\* spells.  "jsonfeed1" stands for "version":"https://jsonfeed.org/version/1
ByteLen(a) ==
  CASE a \in {"<rss", "<RSS"} -> 4
    [] a \in {"<feed", "<Feed", "<xml>"} -> 5
    [] a = "<html>" -> 6
    [] a = "jsonfeed1" -> 40
    [] OTHER -> 1

\* text[:n]; an atom the cut falls into leaves a proper prefix of itself,
\* "~", which spells no marker
RECURSIVE TakeBytes(_, _)
TakeBytes(text, n) ==
  IF text = <<>> \/ n <= 0 THEN <<>>
  ELSE IF ByteLen(Head(text)) <= n
  THEN <<Head(text)>> \o TakeBytes(Tail(text), n - ByteLen(Head(text)))
  ELSE <<"~">>

\* validators.py:5
RSS_MARKERS == {<<"<rss">>, <<"<feed">>, <<"jsonfeed1">>}

\* the body sniffed whole
looks_like_feed_bytes_untruncated(b) ==
  \E tag \in RSS_MARKERS : IsSubstring(tag, lower(b.text))

\* validators.py looks_like_feed_bytes: sniff = b[:20480].lower()
looks_like_feed_bytes(b) ==
  LET sniff == lower(TakeBytes(b.text, SNIFF - b.pad))
  IN \E tag \in RSS_MARKERS : IsSubstring(tag, sniff)

\* A response is Fail (get raised: timeout, connection error, malformed URL)
\* or a record with the HTTP status and the body.
Fail == [fail |-> TRUE]

validate_feed(resp) ==
  IF resp = Fail THEN FALSE
  ELSE IF resp.status >= 400 THEN FALSE
  ELSE looks_like_feed_bytes(resp.body)

(***************************************************************************)
(* The result type and the orchestrator's return statements                *)
(***************************************************************************)
Result(i, st, feed, src, nts) ==
  [input |-> i, status |-> st, feed_url |-> feed, source |-> src, notes |-> nts]

\* orchestrator.py:12
EmptyResult(t) == Result(t, "error", None, None, <<"empty input">>)

\* the not_found Result built without its notes argument
AppleResult_no_notes(t, feed) ==
  IF Truthy(feed) THEN Result(t, "found", feed, <<"apple_lookup">>, None)
  ELSE Result(t, "not_found", None, <<"apple_lookup">>, None)

\* orchestrator.py:19-24
AppleResult(t, feed) ==
  IF Truthy(feed) THEN Result(t, "found", feed, <<"apple_lookup">>, None)
  ELSE Result(t, "not_found", None, <<"apple_lookup">>, <<"No feed from Apple Lookup">>)

\* spotify.py:23-28, the (feed, notes) pair resolve_from_spotify_url returns
\* for the title _title_from_oembed gave and the feed the search gave
resolve_from_spotify_url(ttl, feed) ==
  IF ~Truthy(ttl)
  THEN <<None, <<"No oEmbed title; may be ", "exclusive", " or URL not a show">>>>
  ELSE IF Truthy(feed) THEN <<feed, <<"Matched by title: ">> \o ttl>>
  ELSE <<None, <<"No public RSS for '">> \o ttl \o <<"' (likely ", "exclusive", ")">>>>

\* the failure branch copied from the other resolvers
SpotifyResult_not_found(t, pair) ==
  IF Truthy(pair[1]) THEN Result(t, "found", pair[1], <<"spotify_title_match">>, pair[2])
  ELSE Result(t, "not_found", None, <<"spotify_title_match">>, pair[2])

\* orchestrator.py:27-30
SpotifyResult(t, pair) ==
  IF Truthy(pair[1]) THEN Result(t, "found", pair[1], <<"spotify_title_match">>, pair[2])
  ELSE Result(t, "exclusive_or_unsupported", None, <<"spotify_title_match">>, pair[2])

\* orchestrator.py:33-36
GenericResult(t, feed) ==
  IF Truthy(feed) THEN Result(t, "found", feed, <<"autodiscovery">>, None)
  ELSE Result(t, "not_found", None, <<"autodiscovery">>, <<"No feed discovered">>)

\* orchestrator.py:39-42
SearchResult(t, feed) ==
  IF Truthy(feed) THEN Result(t, "found", feed, <<"apple_search">>, None)
  ELSE Result(t, "not_found", None, <<"apple_search">>, <<"No feed for search term">>)

\* What find_feed returns when the dispatched resolver src returned feed
Orchestrate(t, src, ttl, feed) ==
  CASE src = <<"apple_lookup">> -> AppleResult(t, feed)
    [] src = <<"spotify_title_match">> -> SpotifyResult(t, resolve_from_spotify_url(ttl, feed))
    [] src = <<"autodiscovery">> -> GenericResult(t, feed)
    [] OTHER -> SearchResult(t, feed)

(***************************************************************************)
(* What the remote services may answer                                     *)
(***************************************************************************)
\* A body that resp.json() rejects, or whose JSON is not an object
BadJson == [bad |-> TRUE]
NoData == [none |-> TRUE]
NoResult == [none |-> TRUE]

ApiFeedUrls ==
  {<<"https://", "feeds.example", "/", "a">>, <<"https://", "feeds.example", "/", "b">>}
FeedUrlValues == {None, <<>>} \cup ApiFeedUrls
TrackNames == {None, <<"a", " ", "b">>, <<"a">>, <<"c">>}
OembedTitles == {<<"A", "-", "b">>, <<" ">>}
Statuses == {200, 500}

\* GET itunes.apple.com/lookup: a results array of objects carrying feedUrl
LookupResponses ==
  {Fail} \cup
  [status : Statuses,
   json : {BadJson} \cup {[results |-> r] : r \in SeqUpTo([feedUrl : FeedUrlValues], MaxResults)}]

\* GET itunes.apple.com/search: objects carrying feedUrl and trackName
SearchResponses ==
  {Fail} \cup
  [status : Statuses,
   json : {BadJson} \cup
          {[results |-> r] :
             r \in SeqUpTo([feedUrl : FeedUrlValues, trackName : TrackNames], MaxResults)}]

\* GET open.spotify.com/oembed: an object with a title
OembedResponses ==
  {Fail} \cup
  [status : Statuses \cup {404},
   json : {BadJson} \cup [title : {None, <<>>} \cup OembedTitles]]

\* The <link> and <a> elements of a page, in document order
LinkElems ==
  [tag : {"link"},
   rel : {<<"Alternate">>, <<"stylesheet">>},
   type : {<<"application/", "rss", "+xml">>, <<"text/html">>},
   href : {None, <<"/", "feed">>, <<"https://", "[">>},
   text : {None}]
AnchorElems ==
  [tag : {"a"}, rel : {None}, type : {None},
   href : {<<"/", "rss">>, <<"/", "about">>},
   text : {<<>>, <<"Atom">>, <<"RSS", " ", "Feed">>}]
Docs == SeqUpTo(LinkElems \cup AnchorElems, MaxElems)
RedirectTarget == <<"https://", "other.example", "/", "home">>

\* The feed a candidate URL answers with
FeedResponses ==
  {Fail} \cup
  [status : {200, 404},
   body : {[pad |-> 0, text |-> <<"<RSS">>], [pad |-> 0, text |-> <<"<html>">>],
           [pad |-> SNIFF, text |-> <<"<rss">>]}]

\* Every answer
Remote ==
  [lookup |-> LookupResponses, search |-> SearchResponses, oembed |-> OembedResponses,
   docs |-> Docs, feed |-> FeedResponses, fixed |-> FALSE]

(***************************************************************************)
(* The resolvers' handling of a response                                   *)
(***************************************************************************)
\* resp.json() and data.get("results", []) under the try of apple.py
parsed(resp) == resp # Fail /\ resp.json # BadJson

\* the loop left after the first entry that has a feedUrl
lookup_candidates_first_only(results) ==
  LET feeds == SelectSeq([i \in 1..Len(results) |-> results[i].feedUrl], Truthy)
  IN IF feeds = <<>> THEN <<>> ELSE <<Head(feeds)>>

\* apple.py:19-22: the entries the loop passes to validate_feed, in order
lookup_candidates(results) ==
  LET feeds == [i \in 1..Len(results) |-> results[i].feedUrl]
  IN SelectSeq(feeds, Truthy)

\* list.sort(reverse=True, key=lambda x: x[0]): descending and stable
\* an unstable sort: x put before the entries of equal score
RECURSIVE InsertDesc_before_equal(_, _)
InsertDesc_before_equal(x, sorted) ==
  IF sorted = <<>> THEN <<x>>
  ELSE IF Head(sorted).score <= x.score THEN <<x>> \o sorted
  ELSE <<Head(sorted)>> \o InsertDesc_before_equal(x, Tail(sorted))

RECURSIVE InsertDesc(_, _)
InsertDesc(x, sorted) ==
  IF sorted = <<>> THEN <<x>>
  ELSE IF Head(sorted).score < x.score THEN <<x>> \o sorted
  ELSE <<Head(sorted)>> \o InsertDesc(x, Tail(sorted))

RECURSIVE SortDesc(_)
SortDesc(seq) ==
  IF seq = <<>> THEN <<>>
  ELSE InsertDesc(seq[Len(seq)], SortDesc(SubSeq(seq, 1, Len(seq) - 1)))

HasFeed(e) == Truthy(e.feed)

\* the score used as a gate: entries scoring 0 left out
search_candidates_scoring_only(results, ttl) ==
  LET q == norm(ttl)
      all == [i \in 1..Len(results) |->
                [score |-> score(norm(results[i].trackName), q),
                 feed |-> results[i].feedUrl]]
      Scoring(e) == HasFeed(e) /\ e.score > 0
      sorted == SortDesc(SelectSeq(all, Scoring))
  IN [i \in 1..Len(sorted) |-> sorted[i].feed]

\* apple.py:33-42: the feeds the loop passes to validate_feed, in order
search_candidates(results, ttl) ==
  LET q == norm(ttl)
      all == [i \in 1..Len(results) |->
                [score |-> score(norm(results[i].trackName), q),
                 feed |-> results[i].feedUrl]]
      sorted == SortDesc(SelectSeq(all, HasFeed))
  IN [i \in 1..Len(sorted) |-> sorted[i].feed]

\* the 404 test left out
title_from_oembed_no_404(resp) ==
  IF resp = Fail THEN None
  ELSE IF resp.json = BadJson THEN None
  ELSE resp.json.title

\* spotify.py _title_from_oembed
title_from_oembed(resp) ==
  IF resp = Fail THEN None
  ELSE IF resp.status = 404 THEN None
  ELSE IF resp.json = BadJson THEN None
  ELSE resp.json.title

RSS_MIME_TYPES ==
  {<<"application/", "rss", "+xml">>, <<"application/", "atom", "+xml">>,
   <<"application/rdf+xml">>, <<"application/", "feed", "+", "json">>,
   <<"text/xml">>, <<"application/xml">>}

\* autodiscover.py:26-31
link_matches(e) ==
  LET rel == lower(IF e.rel = None THEN <<>> ELSE e.rel)
      typ == lower(IF e.type = None THEN <<>> ELSE e.type)
  IN /\ Truthy(e.href)
     /\ IsSubstring(<<"alternate">>, rel)
     /\ \/ typ \in RSS_MIME_TYPES
        \/ IsSubstring(<<"rss">>, typ)
        \/ IsSubstring(<<"atom">>, typ)
        \/ IsSubstring(<<"json">>, typ) /\ IsSubstring(<<"feed">>, typ)

\* autodiscover.py:38-40
anchor_matches(e) ==
  LET href == lower(e.href)
      text == lower(IF e.text = None THEN <<>> ELSE e.text)
  IN \/ \E tok \in {<<"rss">>, <<"atom">>, <<"feed", ".xml">>, <<"podcast", ".xml">>} :
          IsSubstring(tok, href)
     \/ IsSubstring(<<"rss">>, text)
     \/ IsSubstring(<<"feed">>, text)

IsLink(e) == e.tag = "link"
IsAnchor(e) == e.tag = "a" /\ e.href # None

\* autodiscover.py:25-34, the candidates of strategy 1
link_candidates(base, doc) ==
  LET m == SelectSeq(SelectSeq(doc, IsLink), link_matches)
  IN [i \in 1..Len(m) |-> urljoin(base, m[i].href)]

\* autodiscover.py:37-43, the candidates of strategy 2
anchor_candidates(base, doc) ==
  LET m == SelectSeq(SelectSeq(doc, IsAnchor), anchor_matches)
  IN [i \in 1..Len(m) |-> urljoin(base, m[i].href)]

\* autodiscover.py:47
WellKnown ==
  << <<"/", "feed">>, <<"/", "feed", ".xml">>, <<"/", "rss">>, <<"/", "rss", ".xml">>,
     <<"/", "podcast", ".xml">>, <<"/", "podcast", "/", "feed">> >>

\* autodiscover.py:46-50, the candidates of strategy 3
wellknown_candidates(base) ==
  [i \in 1..Len(WellKnown) |-> <<Head(base)>> \o netloc(base) \o WellKnown[i]]

\* autodiscover.py:24-50: every candidate in the order the three loops
\* reach it; Raise where urljoin raises
page_candidates(base, doc) ==
  link_candidates(base, doc) \o anchor_candidates(base, doc) \o wellknown_candidates(base)

(***************************************************************************)
(* The state machine: one find_feed call, one step per outbound request    *)
(***************************************************************************)
Init ==
  /\ pc = "idle"
  /\ input = None
  /\ s = None
  /\ source = None
  /\ apple_id = None
  /\ title = None
  /\ embed = NoData
  /\ data = NoData
  /\ cands = <<>>
  /\ calls = <<>>
  /\ result = NoResult
  /\ raised = FALSE
  /\ probe = NoData
  /\ ret = NoData
  /\ world = {}
  /\ history = <<>>

\* The answers the remote R can give to a request: chosen freely, or, where
\* R's answers are fixed, the one it gave to the same request before
Answers(R, ep, arg, all) ==
  LET given == {w \in world : w.ep = ep /\ w.arg = arg} IN
  IF R.fixed /\ given # {} THEN {w.resp : w \in given} ELSE all

\* http.py get: one outbound request, answered by resp
Request(R, ep, arg, resp, ok) ==
  /\ calls' = Append(calls, [ep |-> ep, arg |-> arg, ok |-> ok])
  /\ world' = IF R.fixed THEN world \cup {[ep |-> ep, arg |-> arg, resp |-> resp]} ELSE world

\* a failed Apple lookup falling back to search-by-title
Return_with_fallback(feed) ==
  IF source = <<"apple_lookup">> /\ ~Truthy(feed)
     /\ \A i \in 1..Len(calls) : calls[i].ep # "search"
  THEN pc' = "search_feed_by_title" /\ UNCHANGED result
  ELSE pc' = "done" /\ result' = Orchestrate(s, source, title, feed)

\* The dispatched resolver returns feed (None: no result) and find_feed
\* returns the Result built from it.
Return(feed) ==
  /\ pc' = "done"
  /\ result' = Orchestrate(s, source, title, feed)

\* A resolver's loop goes on with the candidates cs: the next one is passed
\* to validate_feed; the resolver returns None when none is left or when
\* building the next one raises (the except clause).
Continue(cs) ==
  /\ cands' = cs
  /\ IF cs = <<>> \/ Head(cs) = Raise
     THEN Return(None)
     ELSE pc' = "validate_feed" /\ UNCHANGED result

\* orchestrator.py find_feed, up to the first outbound request.  A call
\* starts with no request issued and nothing returned; what earlier calls
\* left in the resolvers' variables is still there until it is assigned.
find_feed(Inputs) ==
  /\ pc = "idle"
  /\ \E i \in Inputs :
       LET t == strip(IF i = None THEN <<>> ELSE i) IN
       /\ input' = i
       /\ s' = t
       /\ calls' = <<>>
       /\ UNCHANGED <<embed, data, cands, probe, ret, world, history>>
       /\ IF ~Truthy(t)
          THEN /\ pc' = "done"
               /\ result' = EmptyResult(t)
               /\ raised' = FALSE
               /\ UNCHANGED <<source, apple_id, title>>
          ELSE IF ~is_url(t)
          THEN /\ pc' = "search_feed_by_title"
               /\ source' = <<"apple_search">>
               /\ title' = t
               /\ result' = NoResult
               /\ raised' = FALSE
               /\ UNCHANGED apple_id
          ELSE IF urlparse_raises(t)
          THEN /\ pc' = "done"
               /\ result' = NoResult
               /\ raised' = TRUE
               /\ UNCHANGED <<source, apple_id, title>>
          ELSE IF is_apple_host(host_of(t))
          THEN /\ source' = <<"apple_lookup">>
               /\ apple_id' = extract_id(t)
               /\ raised' = FALSE
               /\ UNCHANGED title
               /\ IF Truthy(extract_id(t))
                  THEN pc' = "lookup_feed_by_id" /\ result' = NoResult
                  ELSE pc' = "done" /\ result' = AppleResult(t, None)
          ELSE IF is_spotify_host(host_of(t))
          THEN /\ pc' = "title_from_oembed"
               /\ source' = <<"spotify_title_match">>
               /\ result' = NoResult
               /\ raised' = FALSE
               /\ UNCHANGED <<apple_id, title>>
          ELSE /\ pc' = "resolve_from_generic_page"
               /\ source' = <<"autodiscovery">>
               /\ result' = NoResult
               /\ raised' = FALSE
               /\ UNCHANGED <<apple_id, title>>

\* apple.py lookup_feed_by_id: the lookup request and the parse of its body
lookup_feed_by_id(R) ==
  /\ pc = "lookup_feed_by_id"
  /\ \E resp \in Answers(R, "lookup", apple_id, R.lookup) :
       /\ Request(R, "lookup", apple_id, resp, parsed(resp))
       /\ data' = resp
       /\ Continue(IF parsed(resp) THEN lookup_candidates(resp.json.results) ELSE <<>>)
  /\ UNCHANGED <<input, s, source, apple_id, title, embed, raised, probe, ret, history>>

\* the scored list kept at module level, so that the entries scored by
\* earlier calls are still in it
search_feed_by_title_shared_scored(R) ==
  /\ pc = "search_feed_by_title"
  /\ \E resp \in Answers(R, "search", title, R.search) :
       /\ Request(R, "search", title, resp, parsed(resp))
       /\ data' = resp
       /\ Continue(IF parsed(resp)
                   THEN cands \o search_candidates(resp.json.results, title)
                   ELSE <<>>)
  /\ UNCHANGED <<input, s, source, apple_id, title, embed, raised, probe, ret, history>>

\* apple.py search_feed_by_title: the search request, scoring and sorting
search_feed_by_title(R) ==
  /\ pc = "search_feed_by_title"
  /\ \E resp \in Answers(R, "search", title, R.search) :
       /\ Request(R, "search", title, resp, parsed(resp))
       /\ data' = resp
       /\ Continue(IF parsed(resp) THEN search_candidates(resp.json.results, title) ELSE <<>>)
  /\ UNCHANGED <<input, s, source, apple_id, title, embed, raised, probe, ret, history>>

\* spotify.py:22-25: _title_from_oembed and the test of its title
get_oembed_title(R) ==
  /\ pc = "title_from_oembed"
  /\ \E resp \in Answers(R, "oembed", s, R.oembed) :
       LET ttl == title_from_oembed(resp) IN
       /\ Request(R, "oembed", s, resp, Truthy(ttl))
       /\ embed' = resp
       /\ title' = ttl
       /\ IF Truthy(ttl)
          THEN pc' = "search_feed_by_title" /\ UNCHANGED result
          ELSE pc' = "done" /\ result' = Orchestrate(s, source, ttl, None)
  /\ UNCHANGED <<input, s, source, apple_id, data, cands, raised, probe, ret, history>>

\* the status test left out
page_fetched_any_status(resp) == resp # Fail

\* autodiscover.py:18-20: get did not raise and the status is below 400
page_fetched(resp) == resp # Fail /\ resp.status < 400

\* autodiscover.py:18-22: the page fetch; the page answers at s or, after
\* redirects, at RedirectTarget
resolve_from_generic_page(R) ==
  /\ pc = "resolve_from_generic_page"
  /\ \E resp \in Answers(R, "page", s,
                         {Fail} \cup [status : {200, 404}, url : {s, RedirectTarget}, doc : R.docs]) :
       /\ Request(R, "page", s, resp, page_fetched(resp))
       /\ data' = resp
       /\ Continue(IF page_fetched(resp) THEN page_candidates(resp.url, resp.doc) ELSE <<>>)
  /\ UNCHANGED <<input, s, source, apple_id, title, embed, raised, probe, ret, history>>

\* the last candidate returned as a best effort when it does not validate
validate_candidate_best_effort(R) ==
  /\ pc = "validate_feed"
  /\ \E resp \in Answers(R, "feed", Head(cands), R.feed) :
       /\ Request(R, "feed", Head(cands), resp, validate_feed(resp))
       /\ IF validate_feed(resp) \/ Len(cands) = 1
          THEN Return(Head(cands)) /\ UNCHANGED cands
          ELSE Continue(Tail(cands))
  /\ UNCHANGED <<input, s, source, apple_id, title, embed, data, raised, probe, ret, history>>

\* `if validate_feed(candidate): return candidate` of the running loop
validate_candidate(R) ==
  /\ pc = "validate_feed"
  /\ \E resp \in Answers(R, "feed", Head(cands), R.feed) :
       /\ Request(R, "feed", Head(cands), resp, validate_feed(resp))
       /\ IF validate_feed(resp)
          THEN Return(Head(cands)) /\ UNCHANGED cands
          ELSE Continue(Tail(cands))
  /\ UNCHANGED <<input, s, source, apple_id, title, embed, data, raised, probe, ret, history>>

\* The inputs of Spec: one or more of every class the orchestrator tells apart
Inputs ==
  {None, <<>>, <<" ">>,
   <<"https://", "podcasts.apple.com", "/", "id123">>,
   <<" ", "https://", "podcasts.apple.com", "/", "show">>,
   <<"https://", "podcasts.apple.com", "/", "show", "?", "/", "id9">>,
   <<"https://", "open.spotify.com", "/", "show">>,
   <<"https://", "example.com", "/", "blog">>,
   <<"A", "-", "b">>,
   <<"https://", "[">>}

Next ==
  \/ find_feed(Inputs)
  \/ lookup_feed_by_id(Remote)
  \/ search_feed_by_title(Remote)
  \/ get_oembed_title(Remote)
  \/ resolve_from_generic_page(Remote)
  \/ validate_candidate(Remote)

Spec == Init /\ [][Next]_vars

(***************************************************************************)
(* SpecClassify: every input string of up to MaxInputLen atoms, against a  *)
(* remote that answers each request with one failure or one success        *)
(***************************************************************************)
InputAtoms ==
  {" ", "https://", "podcasts.apple.com", "open.spotify.com", "example.com",
   "/", "?", "@", "[", "id123"}

AllInputs == {None} \cup SeqUpTo(InputAtoms, MaxInputLen)

RemoteUpDown ==
  [lookup |-> {Fail, [status |-> 200,
                      json |-> [results |-> <<[feedUrl |-> <<"https://", "feeds.example", "/", "a">>]>>]]},
   search |-> {Fail, [status |-> 200,
                      json |-> [results |-> <<[feedUrl |-> <<"https://", "feeds.example", "/", "a">>,
                                               trackName |-> <<"a">>]>>]]},
   oembed |-> {Fail, [status |-> 200, json |-> [title |-> <<"a">>]]},
   docs |-> {<<>>},
   feed |-> {[status |-> 200, body |-> [pad |-> 0, text |-> <<"<rss">>]],
             [status |-> 404, body |-> [pad |-> 0, text |-> <<"<rss">>]]},
   fixed |-> FALSE]

NextClassify ==
  \/ find_feed(AllInputs)
  \/ lookup_feed_by_id(RemoteUpDown)
  \/ search_feed_by_title(RemoteUpDown)
  \/ get_oembed_title(RemoteUpDown)
  \/ resolve_from_generic_page(RemoteUpDown)
  \/ validate_candidate(RemoteUpDown)

SpecClassify == Init /\ [][NextClassify]_vars

(***************************************************************************)
(* SpecRepeat: MaxCalls find_feed calls one after another, against a       *)
(* remote that gives the same answer every time it gets the same request   *)
(***************************************************************************)
RepeatInputs ==
  {<<"a">>, <<"c">>, <<" ", "a">>,
   <<"https://", "podcasts.apple.com", "/", "id123">>,
   <<"https://", "open.spotify.com", "/", "show">>,
   <<"https://", "example.com", "/", "blog">>}

RemoteFixed ==
  [lookup |-> {Fail, [status |-> 200,
                      json |-> [results |-> <<[feedUrl |-> <<"https://", "feeds.example", "/", "a">>]>>]]},
   search |-> {Fail,
               [status |-> 200, json |-> [results |-> <<>>]],
               [status |-> 200,
                json |-> [results |-> <<[feedUrl |-> <<"https://", "feeds.example", "/", "a">>,
                                         trackName |-> <<"a">>]>>]]},
   oembed |-> {Fail, [status |-> 200, json |-> [title |-> <<"a">>]]},
   docs |-> {<<>>},
   feed |-> {[status |-> 200, body |-> [pad |-> 0, text |-> <<"<rss">>]],
             [status |-> 404, body |-> [pad |-> 0, text |-> <<"<rss">>]]},
   fixed |-> TRUE]

\* what the caller of find_feed got from the call that is over
Outcome == [input |-> input, result |-> result, raised |-> raised]

\* find_feed has returned (or raised) and the caller goes on to its next
\* call; the module keeps nothing of the call, the caller keeps its outcome
return_to_caller ==
  /\ pc = "done"
  /\ Len(history) + 1 < MaxCalls
  /\ pc' = "idle"
  /\ history' = Append(history, Outcome)
  /\ UNCHANGED <<input, s, source, apple_id, title, embed, data, cands, calls, result,
                 raised, probe, ret, world>>

NextRepeat ==
  \/ find_feed(RepeatInputs)
  \/ lookup_feed_by_id(RemoteFixed)
  \/ search_feed_by_title(RemoteFixed)
  \/ get_oembed_title(RemoteFixed)
  \/ resolve_from_generic_page(RemoteFixed)
  \/ validate_candidate(RemoteFixed)
  \/ return_to_caller

SpecRepeat == Init /\ [][NextRepeat]_vars

(***************************************************************************)
(* SpecRetry: one find_feed call against a remote that gives the same      *)
(* answer every time it gets the same request, every page of Docs          *)
(* included; a candidate URL holds a feed or answers 404                   *)
(***************************************************************************)
RemoteSteady ==
  [lookup |-> LookupResponses, search |-> SearchResponses, oembed |-> OembedResponses,
   docs |-> Docs,
   feed |-> {[status |-> 200, body |-> [pad |-> 0, text |-> <<"<rss">>]],
             [status |-> 404, body |-> [pad |-> 0, text |-> <<"<rss">>]]},
   fixed |-> TRUE]

NextRetry ==
  \/ find_feed(Inputs)
  \/ lookup_feed_by_id(RemoteSteady)
  \/ search_feed_by_title(RemoteSteady)
  \/ get_oembed_title(RemoteSteady)
  \/ resolve_from_generic_page(RemoteSteady)
  \/ validate_candidate(RemoteSteady)

SpecRetry == Init /\ [][NextRetry]_vars

(***************************************************************************)
(* Functions applied on their own: the arguments are drawn in the initial  *)
(* state, one step applies the function                                    *)
(***************************************************************************)
InitApply(probes) ==
  /\ pc = "apply"
  /\ input = None
  /\ s = None
  /\ source = None
  /\ apple_id = None
  /\ title = None
  /\ embed = NoData
  /\ data = NoData
  /\ cands = <<>>
  /\ calls = <<>>
  /\ result = NoResult
  /\ raised = FALSE
  /\ probe \in probes
  /\ ret = NoData
  /\ world = {}
  /\ history = <<>>

Returns(value) ==
  /\ pc' = "done"
  /\ ret' = [value |-> value]
  /\ UNCHANGED <<input, s, source, apple_id, title, embed, data, cands, calls, result,
                 raised, probe, world, history>>

Applied(fn) == pc = "done" /\ probe # NoData /\ probe.fn = fn

\* The bodies of SpecValidate: the filler ends around the 20480-byte cut
BodyAtoms == {"<rss", "<RSS", "<Feed", "jsonfeed1", "<html>", "<xml>"}
Bodies ==
  [pad : {0, SNIFF - 41, SNIFF - 40, SNIFF - 39, SNIFF - 5, SNIFF - 4, SNIFF - 3,
          SNIFF, SNIFF + 1},
   text : SeqUpTo(BodyAtoms, MaxBodyAtoms)]

ValidateProbes ==
  [fn : {"validate_feed"},
   resp : {Fail} \cup [status : {200, 204, 399, 400, 404, 500}, body : Bodies]]

\* validators.py validate_feed, the response to get(url) given
apply_validate_feed ==
  /\ pc = "apply"
  /\ probe.fn = "validate_feed"
  /\ Returns(validate_feed(probe.resp))

SpecValidate == InitApply(ValidateProbes) /\ [][apply_validate_feed]_vars

\* The titles of SpecScore: letters in both cases, a punctuation mark and
\* a blank, in every arrangement
TitleAtoms == {"A", "a", "b", "-", " "}
Titles == SeqUpTo(TitleAtoms, MaxTitleLen)
NormalizedTitles == {norm(x) : x \in Titles}

ScoreProbes ==
  [fn : {"norm"}, s : Titles \cup {None}]
  \cup [fn : {"score"}, a : NormalizedTitles, b : NormalizedTitles]
  \cup [fn : {"title_score"}, t : Titles \cup {None}, q : Titles]

\* apple.py _norm
apply_norm ==
  /\ pc = "apply"
  /\ probe.fn = "norm"
  /\ Returns(norm(probe.s))

\* apple.py _score, for the pair and for its first title with itself
apply_score ==
  /\ pc = "apply"
  /\ probe.fn = "score"
  /\ Returns([ab |-> score(probe.a, probe.b), aa |-> score(probe.a, probe.a)])

\* apple.py:34-38: the score of an entry's trackName t for the query q
apply_title_score ==
  /\ pc = "apply"
  /\ probe.fn = "title_score"
  /\ Returns(score(norm(probe.t), norm(probe.q)))

NextScore ==
  \/ apply_norm
  \/ apply_score
  \/ apply_title_score

SpecScore == InitApply(ScoreProbes) /\ [][NextScore]_vars

(***************************************************************************)
(* Properties                                                              *)
(***************************************************************************)
Done == pc = "done"
Returned == result # NoResult

IsFeedCall(c) == c.ep = "feed"
\* the validate_feed calls of this find_feed call, in order
FeedCalls == SelectSeq(calls, IsFeedCall)
Validated == {i \in 1..Len(FeedCalls) : FeedCalls[i].ok}
Endpoints == {calls[i].ep : i \in 1..Len(calls)}

\* The feed calls are the candidates expected[1], expected[2], ... in that
\* order, each one issued only after the one before it failed to validate.
TriedInOrder(expected) ==
  /\ Len(FeedCalls) <= Len(expected)
  /\ \A i \in 1..Len(FeedCalls) : FeedCalls[i].arg = expected[i]
  /\ \A i \in 1..(Len(FeedCalls) - 1) : ~FeedCalls[i].ok

\* C1: in every Result find_feed returns, feed_url is non-null iff status
\* is "found", and notes is non-null whenever status is not "found".
C1_ResultInvariant ==
  Returned =>
    /\ (result.feed_url # None) <=> (result.status = "found")
    /\ (result.status # "found") => (result.notes # None)

C1_Witness ==
  /\ Done /\ Returned
  /\ result.status = "not_found"
  /\ result.source = <<"apple_lookup">>
  /\ Len(FeedCalls) = 2

\* C2: find_feed returns a Result for every input string and every remote
\* behaviour; no exception ever escapes it.
C2_NoExceptionEscapes == Done => (~raised /\ Returned)

\* C3: whenever find_feed returns "found", feed_url is a URL for which
\* validate_feed returned true during that call, and the only such URL.
C3_FoundIsValidated ==
  (Returned /\ result.status = "found") =>
    /\ Cardinality(Validated) = 1
    /\ \A i \in Validated : FeedCalls[i].arg = result.feed_url

C3_Witness ==
  /\ Done /\ Returned
  /\ result.status = "found"
  /\ result.source = <<"autodiscovery">>
  /\ Len(FeedCalls) = 3

\* An input that is empty or only whitespace
Blank(i) == i # None /\ \A k \in 1..Len(i) : i[k] \in Whitespace

\* C4: for an input that is empty or only whitespace, find_feed returns
\* status "error", no feed_url, notes "empty input" and no source, and
\* issues no outbound request.
C4_EmptyInput ==
  (pc # "idle" /\ Blank(input)) =>
    /\ Done /\ ~raised
    /\ result = [input |-> <<>>, status |-> "error", feed_url |-> None,
                 source |-> None, notes |-> <<"empty input">>]
    /\ calls = <<>>

C4_Witness == Done /\ input = <<" ", " ">> /\ Returned

\* The class of a non-empty trimmed input, by the rule of C5: no http(s)://
\* prefix, a search term; else by the host, Apple before Spotify before the rest.
C5_Class(t) ==
  IF Head(t) # "https://" THEN <<"apple_search">>
  ELSE IF IsSubstring(<<"podcasts.apple.com">>, host_of(t)) THEN <<"apple_lookup">>
  ELSE IF IsSubstring(<<"open.spotify.com">>, host_of(t)) THEN <<"spotify_title_match">>
  ELSE <<"autodiscovery">>

\* The endpoints the resolver of a class may call
C5_Endpoints(class) ==
  CASE class = <<"apple_search">> -> {"search", "feed"}
    [] class = <<"apple_lookup">> -> {"lookup", "feed"}
    [] class = <<"spotify_title_match">> -> {"oembed", "search", "feed"}
    [] OTHER -> {"page", "feed"}

C5_Dispatched ==
  /\ Endpoints \subseteq C5_Endpoints(C5_Class(s))
  /\ Done => (Returned /\ result.source = C5_Class(s))

\* C5: for every non-empty trimmed input exactly one resolver is dispatched,
\* chosen by the class of the input alone, and the Result's source is that
\* resolver's source whether it succeeded or failed.
C5_OneResolverByClass == (pc # "idle" /\ Truthy(s)) => C5_Dispatched

\* The dispatch rule of C5 on the inputs urlparse accepts
C5_WhenUrlParses == (pc # "idle" /\ Truthy(s) /\ ~raised) => C5_Dispatched

NonEmpty(e) == e.feedUrl # None /\ e.feedUrl # <<>>
\* the non-empty feedUrls of a results list, in the order of the list
C6_Feeds(results) ==
  LET kept == SelectSeq(results, NonEmpty)
  IN [i \in 1..Len(kept) |-> kept[i].feedUrl]

LookupAnswered == source = <<"apple_lookup">> /\ data # NoData /\ parsed(data)

\* C6: for an Apple URL with a numeric id whose lookup response is parsed,
\* the entries with a non-empty feedUrl are validated in the order of the
\* response until one validates; find_feed then returns found, apple_lookup
\* and that feedUrl, and validates no later entry.
C6_FirstValidatingEntry ==
  (Done /\ LookupAnswered) =>
    /\ TriedInOrder(C6_Feeds(data.json.results))
    /\ IF Validated # {}
       THEN result = [input |-> s, status |-> "found",
                      feed_url |-> FeedCalls[Len(FeedCalls)].arg,
                      source |-> <<"apple_lookup">>, notes |-> None]
       ELSE Len(FeedCalls) = Len(C6_Feeds(data.json.results))
            /\ result.status = "not_found"

C6_Witness ==
  /\ Done /\ LookupAnswered
  /\ result.status = "found"
  /\ Len(FeedCalls) = 2
  /\ result.feed_url = data.json.results[2].feedUrl

C8_NoTitle ==
  \/ embed = Fail
  \/ embed.status = 404
  \/ embed.json = BadJson
  \/ embed.json.title = None
  \/ embed.json.title = <<>>

SpotifyAnswered == source = <<"spotify_title_match">> /\ embed # NoData

\* C8: for a Spotify URL whose embed lookup returns 404, fails or yields no
\* non-empty title, find_feed returns exclusive_or_unsupported,
\* spotify_title_match, no feed_url and non-empty notes that mention
\* exclusivity, and the search endpoint is never called.
C8_NoTitleIsExclusive ==
  (SpotifyAnswered /\ C8_NoTitle) =>
    /\ Done /\ Returned
    /\ result.status = "exclusive_or_unsupported"
    /\ result.source = <<"spotify_title_match">>
    /\ result.feed_url = None
    /\ Truthy(result.notes)
    /\ IsSubstring(<<"exclusive">>, result.notes)
    /\ calls = <<[ep |-> "oembed", arg |-> s, ok |-> FALSE]>>

C8_Witness ==
  /\ Done /\ SpotifyAnswered
  /\ embed # Fail
  /\ embed.status = 404
  /\ embed.json # BadJson
  /\ Truthy(embed.json.title)

\* C9: for a Spotify URL whose embed lookup yields a non-empty title, the
\* resolver calls search-by-title with exactly that title and makes no other
\* discovery call; the Result is found/spotify_title_match with the
\* validated feed, or exclusive_or_unsupported/spotify_title_match, the
\* notes containing the title either way.  A Spotify URL never gives not_found.
C9_TitleDelegatedToSearch ==
  /\ (source = <<"spotify_title_match">> /\ Returned) => result.status # "not_found"
  /\ (SpotifyAnswered /\ ~C8_NoTitle) =>
       /\ calls[1] = [ep |-> "oembed", arg |-> s, ok |-> TRUE]
       /\ Len(calls) >= 2 =>
            /\ calls[2].ep = "search"
            /\ calls[2].arg = embed.json.title
       /\ \A i \in 3..Len(calls) : calls[i].ep = "feed"
       /\ Done =>
            /\ Len(calls) >= 2
            /\ result.source = <<"spotify_title_match">>
            /\ IsSubstring(embed.json.title, result.notes)
            /\ IF Validated # {}
               THEN /\ result.status = "found"
                    /\ result.feed_url = FeedCalls[Len(FeedCalls)].arg
               ELSE /\ result.status = "exclusive_or_unsupported"
                    /\ result.feed_url = None

C9_Witness ==
  /\ Done /\ SpotifyAnswered
  /\ result.status = "found"
  /\ Len(calls) = 4

PageFetched ==
  /\ source = <<"autodiscovery">>
  /\ data # NoData
  /\ data # Fail
  /\ data.status < 400

\* the candidates of a fetched page in the priority order of C10
C10_Order ==
  link_candidates(data.url, data.doc) \o anchor_candidates(data.url, data.doc)
    \o wellknown_candidates(data.url)

\* C10: autodiscovery validates the matching <link> candidates in document
\* order, then the matching anchors in document order, then the six
\* well-known paths, and returns the first candidate in that order that
\* validates, validating none after it; it gives up only when every
\* candidate has failed validation.
C10_PriorityOrder ==
  (Done /\ PageFetched) =>
    /\ TriedInOrder(C10_Order)
    /\ IF Validated # {}
       THEN result.status = "found" /\ result.feed_url = FeedCalls[Len(FeedCalls)].arg
       ELSE Len(FeedCalls) = Len(C10_Order) /\ result.status = "not_found"

\* The priority order of C10 with the loops cut short at the first
\* candidate whose href urljoin rejects
C10_OrderUpToRaise ==
  (Done /\ PageFetched) =>
    LET tried == IF \E i \in 1..Len(C10_Order) : C10_Order[i] = Raise
                 THEN SubSeq(C10_Order, 1,
                             (CHOOSE i \in 1..Len(C10_Order) :
                                /\ C10_Order[i] = Raise
                                /\ \A j \in 1..(i - 1) : C10_Order[j] # Raise) - 1)
                 ELSE C10_Order
    IN /\ TriedInOrder(tried)
       /\ IF Validated # {}
          THEN result.status = "found" /\ result.feed_url = FeedCalls[Len(FeedCalls)].arg
          ELSE Len(FeedCalls) = Len(tried) /\ result.status = "not_found"

\* The page fetch failed: get raised or the status is 400 or above
PageFailed ==
  /\ source = <<"autodiscovery">>
  /\ data # NoData
  /\ (data = Fail \/ data.status >= 400)

\* C11: for a generic URL, a failed page fetch (transport failure or status
\* >= 400) ends the resolver with no candidate validated, the well-known
\* paths included; and whenever autodiscovery ends with no validated
\* candidate, find_feed returns not_found, autodiscovery, "No feed discovered".
C11_NoFeedDiscovered ==
  /\ PageFailed =>
       /\ Done
       /\ calls = <<[ep |-> "page", arg |-> s, ok |-> FALSE]>>
  /\ (Done /\ source = <<"autodiscovery">> /\ Validated = {}) =>
       result = [input |-> s, status |-> "not_found", feed_url |-> None,
                 source |-> <<"autodiscovery">>, notes |-> <<"No feed discovered">>]

C11_Witness ==
  /\ Done /\ PageFailed
  /\ data # Fail
  /\ data.status = 404
  /\ data.doc # <<>>
  /\ result.status = "not_found"

RECURSIVE TotalBytes(_)
TotalBytes(text) ==
  IF text = <<>> THEN 0 ELSE ByteLen(Head(text)) + TotalBytes(Tail(text))

\* One of the three markers, in any case, ends at or before byte 20480
C12_MarkerWithinSniff(b) ==
  \E i \in 1..Len(b.text) :
    /\ LowerAtom(b.text[i]) \in {"<rss", "<feed", "jsonfeed1"}
    /\ b.pad + TotalBytes(SubSeq(b.text, 1, i)) <= 20480

\* C12: validate_feed returns true iff the fetch succeeds with a status
\* below 400 and a marker ("<rss", "<feed", the JSON Feed version string,
\* case-insensitively) lies entirely within the first 20480 bytes of the body.
C12_ValidateIff ==
  Applied("validate_feed") =>
    (ret.value <=>
       /\ probe.resp # Fail
       /\ probe.resp.status < 400
       /\ C12_MarkerWithinSniff(probe.resp.body))

\* a 200 body whose only marker straddles the 20480-byte boundary
C12_Witness ==
  /\ Applied("validate_feed")
  /\ probe.resp # Fail
  /\ probe.resp.status = 200
  /\ probe.resp.body = [pad |-> 20477, text |-> <<"<RSS", "<html>">>]
  /\ ret.value = FALSE

\* what the callers got from the calls made so far, in order
Outcomes == history \o (IF Done THEN <<Outcome>> ELSE <<>>)

\* C13: against a remote whose answers are fixed, two find_feed calls with
\* the same input have the same outcome, the same Result field for field,
\* whichever other calls were made before or between them.
C13_Deterministic ==
  \A i, j \in 1..Len(Outcomes) :
    Outcomes[i].input = Outcomes[j].input =>
      /\ Outcomes[i].raised = Outcomes[j].raised
      /\ Outcomes[i].result = Outcomes[j].result

\* the same title searched before and after a call that found a feed for
\* another title
C13_Witness ==
  /\ Done
  /\ Len(history) = 2
  /\ history[1].input = <<"c">>
  /\ history[1].result.status = "not_found"
  /\ history[2].input = <<"a">>
  /\ history[2].result.status = "found"
  /\ input = <<"c">>
  /\ result.status = "not_found"
  /\ [ep |-> "search", arg |-> <<"c">>, resp |-> [status |-> 200, json |-> [results |-> <<>>]]] \in world

\* search_feed_by_title got a response it could parse
SearchAnswered ==
  /\ source \in {<<"apple_search">>, <<"spotify_title_match">>}
  /\ data # NoData
  /\ data # Fail
  /\ data.json # BadJson

Entries == data.json.results
EntryScore(i) == score(norm(Entries[i].trackName), norm(title))
EntryHasFeed(i) == Entries[i].feedUrl # None /\ Entries[i].feedUrl # <<>>
WithFeed == {i \in 1..Len(Entries) : EntryHasFeed(i)}
\* the entries ranked before entry i: a higher score, or the same score and
\* earlier in the response
RankedBefore(i) ==
  {j \in WithFeed : EntryScore(j) > EntryScore(i) \/ (EntryScore(j) = EntryScore(i) /\ j < i)}
\* the entry at place k of the ranking
RankedAt(k) == CHOOSE i \in WithFeed : Cardinality(RankedBefore(i)) = k - 1

\* C14: the feeds search_feed_by_title passes to validate_feed are those of
\* the entries with a non-empty feedUrl, by descending score and in the
\* response's order on equal scores; it stops at the first that validates
\* and returns it, and returns nothing when the ranking is used up.
C14_RankedFirstValidating ==
  SearchAnswered =>
    /\ Len(FeedCalls) <= Cardinality(WithFeed)
    /\ \A k \in 1..Len(FeedCalls) :
         /\ FeedCalls[k].arg = Entries[RankedAt(k)].feedUrl
         /\ FeedCalls[k].ok => k = Len(FeedCalls)
    /\ Done /\ ~raised =>
         IF Validated # {}
         THEN /\ result.status = "found"
              /\ result.feed_url = Entries[RankedAt(Len(FeedCalls))].feedUrl
         ELSE /\ result.status # "found"
              /\ result.feed_url = None
              /\ Len(FeedCalls) = Cardinality(WithFeed)

\* two entries of equal score whose feeds are tried in the response's order,
\* the second one validating
C14_Witness ==
  /\ Done
  /\ SearchAnswered
  /\ source = <<"apple_search">>
  /\ Len(Entries) = 2
  /\ WithFeed = {1, 2}
  /\ EntryScore(1) = EntryScore(2)
  /\ Entries[1].feedUrl # Entries[2].feedUrl
  /\ Len(FeedCalls) = 2
  /\ FeedCalls[1].arg = Entries[1].feedUrl
  /\ ~FeedCalls[1].ok
  /\ result.feed_url = Entries[2].feedUrl

\* the second entry scoring higher than the first and tried first
C14_WitnessReordered ==
  /\ Done
  /\ SearchAnswered
  /\ WithFeed = {1, 2}
  /\ EntryScore(2) > EntryScore(1)
  /\ Entries[1].feedUrl # Entries[2].feedUrl
  /\ result.feed_url = Entries[2].feedUrl

\* the feeds that validate_feed was called with and rejected
Rejected == {FeedCalls[k].arg : k \in {n \in 1..Len(FeedCalls) : ~FeedCalls[n].ok}}

\* C15: a search that returned nothing either failed (no response, or a
\* body that is not JSON) or had every entry with a feedUrl rejected by
\* validate_feed, whatever the entries' scores; a feed that validate_feed
\* accepted is returned.
C15_ScoreNeverRejects ==
  Done /\ ~raised /\ source \in {<<"apple_search">>, <<"spotify_title_match">>}
       /\ data # NoData =>
    /\ result.feed_url = None =>
         \/ data = Fail
         \/ data.json = BadJson
         \/ \A i \in WithFeed : Entries[i].feedUrl \in Rejected
    /\ Validated # {} => result.status = "found"

\* every entry scores 0, one of them without a display name, and the feed
\* of the second is returned
C15_Witness ==
  /\ Done
  /\ SearchAnswered
  /\ Len(Entries) = 2
  /\ WithFeed = {1, 2}
  /\ Entries[2].trackName = None
  /\ EntryScore(1) = 0
  /\ EntryScore(2) = 0
  /\ ~FeedCalls[1].ok
  /\ result.status = "found"
  /\ result.feed_url = Entries[2].feedUrl

\* C16: the score of two normalized titles is 0 when either is empty, else
\* 7 when they are equal, 2 when they differ and one is a substring of the
\* other, 0 otherwise; and a title never scores higher against another
\* title than against itself.
C16_ScoreTable ==
  Applied("score") =>
    LET a == probe.a
        b == probe.b
        OneInOther == \E i \in 0..Len(b) : \E j \in i..Len(b) : SubSeq(b, i + 1, j) = a
        OtherInOne == \E i \in 0..Len(a) : \E j \in i..Len(a) : SubSeq(a, i + 1, j) = b
    IN /\ ret.value.ab = (IF a = <<>> \/ b = <<>> THEN 0
                           ELSE IF a = b THEN 7
                           ELSE IF OneInOther \/ OtherInOne THEN 2
                           ELSE 0)
       /\ ret.value.ab \in {0, 2, 7}
       /\ ret.value.aa >= ret.value.ab

\* a title scored against itself, and against a longer title holding it
C16_Witness ==
  /\ Applied("score")
  /\ probe.a = <<"a">>
  /\ probe.b = <<"a", " ", "b">>
  /\ ret.value = [ab |-> 2, aa |-> 7]

\* the normalization as the claim has it: lower case, runs of non-word
\* characters collapsed to one space, then trimmed
RECURSIVE Collapsed(_)
Collapsed(str) ==
  IF str = <<>> THEN <<>>
  ELSE IF Head(str) \in NonWord
  THEN IF Tail(str) # <<>> /\ Head(Tail(str)) \in NonWord
       THEN Collapsed(Tail(str))
       ELSE <<" ">> \o Collapsed(Tail(str))
  ELSE <<LowerAtom(Head(str))>> \o Collapsed(Tail(str))

RECURSIVE Trimmed(_)
Trimmed(str) ==
  IF str # <<>> /\ Head(str) = " " THEN Trimmed(Tail(str))
  ELSE IF str # <<>> /\ str[Len(str)] = " " THEN Trimmed(SubSeq(str, 1, Len(str) - 1))
  ELSE str

Canonical(x) == Trimmed(Collapsed(IF x = None THEN <<>> ELSE x))

\* C17: a normalized title never begins or ends with a space; a title of
\* non-word characters only normalizes to the empty string and scores 0
\* against anything; two titles that differ only in case, in leading or
\* trailing punctuation or in the separators between words score 7.
C17_NormalizationTrims ==
  /\ Applied("norm") =>
       /\ ret.value # <<>> => Head(ret.value) # " " /\ ret.value[Len(ret.value)] # " "
       /\ Canonical(probe.s) = <<>> => ret.value = <<>>
  /\ Applied("title_score") =>
       /\ Canonical(probe.t) = <<>> \/ Canonical(probe.q) = <<>> => ret.value = 0
       /\ Canonical(probe.t) # <<>> /\ Canonical(probe.t) = Canonical(probe.q) => ret.value = 7

\* C17, for titles whose first and last characters other than blanks are
\* word characters: there the code's normalization is the claim's
C17_WhenNoOuterPunctuation ==
  LET NotBlank(x) == {i \in 1..Len(x) : x[i] # " "}
      Inner(x) == \/ x = None
                  \/ NotBlank(x) = {}
                  \/ \A i \in NotBlank(x) :
                       (\A j \in NotBlank(x) : i <= j) \/ (\A j \in NotBlank(x) : j <= i)
                         => x[i] \notin NonWord
  IN
  /\ Applied("norm") /\ Inner(probe.s) => ret.value = Canonical(probe.s)
  /\ Applied("title_score") /\ Inner(probe.t) /\ Inner(probe.q) =>
       /\ Canonical(probe.t) = <<>> \/ Canonical(probe.q) = <<>> => ret.value = 0
       /\ Canonical(probe.t) # <<>> /\ Canonical(probe.t) = Canonical(probe.q) => ret.value = 7

\* the response came with an HTTP status of 400 or more
ErrorStatus(resp) == resp # NoData /\ resp # Fail /\ resp.status >= 400

\* C18: a lookup, search or embed response with a status of 400 or more
\* counts as no candidate: no search call and no validate_feed call follows
\* from it and the call returns no feed.
C18_ErrorStatusIsAbsence ==
  /\ source \in {<<"apple_lookup">>, <<"apple_search">>, <<"spotify_title_match">>}
       /\ ErrorStatus(data) =>
       /\ FeedCalls = <<>>
       /\ Done => result.feed_url = None
  /\ source = <<"spotify_title_match">> /\ ErrorStatus(embed) =>
       /\ "search" \notin Endpoints
       /\ FeedCalls = <<>>
       /\ Done => result.feed_url = None /\ result.status # "found"

\* C18, as far as the code goes: an embed response with status 404
C18_NotFoundEmbedIsAbsence ==
  source = <<"spotify_title_match">> /\ embed # NoData /\ embed # Fail /\ embed.status = 404 =>
    /\ "search" \notin Endpoints
    /\ FeedCalls = <<>>
    /\ Done => result.feed_url = None /\ result.status # "found"

\* the anchors that are candidates as C19 has it: a token in the href or
\* in the visible text, or rss or feed in the visible text
FeedTokens == {<<"rss">>, <<"atom">>, <<"feed", ".xml">>, <<"podcast", ".xml">>}
Contains(tok, str) ==
  \E i \in 1..Len(str) :
    i + Len(tok) - 1 <= Len(str) /\ \A k \in 1..Len(tok) : LowerAtom(str[i + k - 1]) = tok[k]
AnchorByHrefOrText(e) ==
  /\ e.tag = "a"
  /\ e.href # None
  /\ \/ \E tok \in FeedTokens : Contains(tok, e.href) \/ Contains(tok, e.text)
     \/ Contains(<<"rss">>, e.text)
     \/ Contains(<<"feed">>, e.text)
AnchorByHrefOrRssFeedText(e) ==
  /\ e.tag = "a"
  /\ e.href # None
  /\ \/ \E tok \in FeedTokens : Contains(tok, e.href)
     \/ Contains(<<"rss">>, e.text)
     \/ Contains(<<"feed">>, e.text)

\* a fetched page none of whose candidates validated and none of whose
\* hrefs urljoin rejected: every candidate was passed to validate_feed
PageExhausted ==
  /\ Done
  /\ PageFetched
  /\ Validated = {}
  /\ \A i \in 1..Len(data.doc) :
       data.doc[i].href = None \/ urljoin(data.url, data.doc[i].href) # Raise

\* the feed calls between those for the <link> elements and the six for
\* the well-known paths
AnchorCalls ==
  LET n == Len(link_candidates(data.url, data.doc))
  IN SubSeq(FeedCalls, n + 1, Len(FeedCalls) - Len(WellKnown))

\* C19: the anchors passed to validate_feed (as their resolved hrefs, in
\* document order) are exactly those whose href or visible text contains
\* rss, atom, feed.xml or podcast.xml, or whose visible text contains rss
\* or feed.
C19_AnchorByHrefOrText ==
  PageExhausted =>
    LET m == SelectSeq(data.doc, AnchorByHrefOrText)
    IN /\ Len(AnchorCalls) = Len(m)
       /\ \A i \in 1..Len(m) : AnchorCalls[i].arg = urljoin(data.url, m[i].href)

\* C19 with the four tokens looked for in the href only
C19_AnchorByHrefOrRssFeedText ==
  PageExhausted =>
    LET m == SelectSeq(data.doc, AnchorByHrefOrRssFeedText)
    IN /\ Len(AnchorCalls) = Len(m)
       /\ \A i \in 1..Len(m) : AnchorCalls[i].arg = urljoin(data.url, m[i].href)

\* the path of the URL s: what follows the host, up to the query string or
\* the fragment
RECURSIVE UpTo(_, _)
UpTo(str, stops) ==
  IF str = <<>> \/ Head(str) \in stops THEN <<>> ELSE <<Head(str)>> \o UpTo(Tail(str), stops)
PathOf(url) ==
  LET afterScheme == Tail(url)
      host == UpTo(afterScheme, {"/", "?", "#"})
  IN UpTo(SubSeq(afterScheme, Len(host) + 1, Len(afterScheme)), {"?", "#"})
\* the places of str where "/id<digits>" begins
IdPlaces(str) == {i \in 1..(Len(str) - 1) : str[i] = "/" /\ str[i + 1] \in IdAtoms}
FirstId(str) ==
  LET i == CHOOSE i \in IdPlaces(str) : \A j \in IdPlaces(str) : i <= j
  IN IF str[i + 1] = "id123" THEN <<"123">> ELSE <<"9">>
LookupCalls == {i \in 1..Len(calls) : calls[i].ep = "lookup"}

\* C20: for an Apple URL whose path holds no "/id<digits>" find_feed ends
\* at once with no outbound request; when the path holds one, the first
\* request is the lookup of that id and it is the only lookup.
C20_IdFromPath ==
  source = <<"apple_lookup">> =>
    IF IdPlaces(PathOf(s)) = {}
    THEN Done /\ calls = <<>> /\ result.feed_url = None
    ELSE calls # <<>> =>
           /\ calls[1].ep = "lookup"
           /\ calls[1].arg = FirstId(PathOf(s))
           /\ LookupCalls = {1}

\* C20 with the id looked for in the whole URL
C20_IdFromWholeUrl ==
  source = <<"apple_lookup">> =>
    IF IdPlaces(Flatten(s)) = {}
    THEN Done /\ calls = <<>> /\ result.feed_url = None
    ELSE calls # <<>> =>
           /\ calls[1].ep = "lookup"
           /\ calls[1].arg = FirstId(Flatten(s))
           /\ LookupCalls = {1}

\* the request c of this call failed: the remote gave no response to it,
\* or one with a status of 400 or more
Failed(c) ==
  \E w \in world :
    /\ w.ep = c.ep
    /\ w.arg = c.arg
    /\ w.resp = Fail \/ w.resp.status >= 400

\* the requests c and d go to the same URL: the same endpoint with the
\* same argument, or the same address once fetched as a page and once as a
\* feed
SameUrl(c, d) ==
  /\ c.arg = d.arg
  /\ c.ep = d.ep \/ {c.ep, d.ep} \subseteq {"page", "feed"}

\* C21: once a request of a find_feed call has failed (no response, or a
\* status of 400 or more), the call issues no further request to the same
\* URL, also when that URL is met again as another autodiscovery candidate.
C21_NoRequestAfterFailure ==
  \A i \in 1..Len(calls) :
    Failed(calls[i]) => \A j \in (i + 1)..Len(calls) : ~SameUrl(calls[j], calls[i])

\* the candidates the resolver of this call has drawn from its response
CallCandidates ==
  IF source = <<"autodiscovery">> /\ PageFetched
  THEN LET all == link_candidates(data.url, data.doc) \o anchor_candidates(data.url, data.doc)
                    \o wellknown_candidates(data.url)
       IN SelectSeq(all, LAMBDA u : u # Raise)
  ELSE IF source = <<"apple_lookup">> /\ data # NoData /\ data # Fail /\ data.json # BadJson
  THEN SelectSeq([i \in 1..Len(data.json.results) |-> data.json.results[i].feedUrl],
                 LAMBDA u : u # None /\ u # <<>>)
  ELSE IF SearchAnswered
  THEN SelectSeq([i \in 1..Len(Entries) |-> Entries[i].feedUrl],
                 LAMBDA u : u # None /\ u # <<>>)
  ELSE <<>>

Times(u, seq) == Cardinality({i \in 1..Len(seq) : seq[i] = u})
FeedCallArgs == [i \in 1..Len(FeedCalls) |-> FeedCalls[i].arg]

\* C21, as far as the code goes: the lookup, search, embed and page requests
\* are issued once at most, and a URL is passed to validate_feed once at
\* most for every time it is met as a candidate; a URL requested again is
\* a URL that is a candidate again.
C21_OneRequestPerCandidate ==
  /\ \A ep \in {"lookup", "search", "oembed", "page"} :
       Cardinality({i \in 1..Len(calls) : calls[i].ep = ep}) <= 1
  /\ \A k \in 1..Len(FeedCalls) :
       Times(FeedCalls[k].arg, FeedCallArgs) <= Times(FeedCalls[k].arg, CallCandidates)

====
